---- MODULE Spec2Model ----
(***************************************************************************)
(* Model of mattermost-emoji-uploader (src/main.go).                       *)
(*                                                                         *)
(* Strings are sequences of Unicode code points (Go runes), so that the    *)
(* character-level operations of the program (transliteration, lowercase,  *)
(* replacement, regular-expression stripping, truncation, prefix and       *)
(* substring tests, number formatting) are computed and not assumed.       *)
(***************************************************************************)
EXTENDS Integers, Sequences, FiniteSets, TLC

VARIABLES
    \* ---- the run of main() ----
    pc,            \* position of main(): flags, readfile, unmarshal, getUserID,
                   \* range, download, upload, sleep, exit
    serverURL,     \* flag -server / -s   (main.go:21)
    token,         \* flag -token / -t    (main.go:22)
    jsonFile,      \* flag -file / -f     (main.go:23)
    disk,          \* what os.ReadFile / json.Unmarshal will find at jsonFile
    emojis,        \* the EmojiMap decoded from the file (main.go:84)
    userID,        \* result of getUserID (main.go:95)
    todo,          \* keys of emojis the range loop has not visited yet
    originalName,  \* loop variable (main.go:103)
    safeName,      \* main.go:105
    contentType,   \* main.go:116
    exitCode,      \* process exit code (os.Exit(1) or plain return)
    trace,         \* history: network calls, printed outcomes, sleeps
    \* ---- sanitizeEmojiName applied on its own ----
    sanPc, sanIn, sanOut, sanAgain

runVars == <<pc, serverURL, token, jsonFile, disk, emojis, userID, todo,
             originalName, safeName, contentType, exitCode, trace>>
sanVars == <<sanPc, sanIn, sanOut, sanAgain>>
vars == <<runVars, sanVars>>

(***************************************************************************)
(* Bounds of the model.                                                    *)
(***************************************************************************)
\* largest number of entries of a manifest
MaxEntries == 2
\* sanitizer inputs are a block of at most MaxBlock runes ...
MaxBlock == 2
\* ... repeated at most MaxRepeat times (long enough to pass 64 characters)
MaxRepeat == 66

(***************************************************************************)
(* Text helpers (package strings, fmt).                                    *)
(***************************************************************************)
RECURSIVE Repeat(_, _)
Repeat(s, k) == IF k = 0 THEN <<>> ELSE s \o Repeat(s, k - 1)

\* strings.HasPrefix
HasPrefix(s, prefix) ==
    /\ Len(s) >= Len(prefix)
    /\ SubSeq(s, 1, Len(prefix)) = prefix

\* strings.Contains
Contains(s, substr) ==
    \E i \in 0..(Len(s) - Len(substr)) : SubSeq(s, i + 1, i + Len(substr)) = substr

\* fmt's %d for a non-negative integer: decimal digits, '0' is 48
RECURSIVE Itoa(_)
Itoa(n) == IF n < 10 THEN <<48 + n>> ELSE Itoa(n \div 10) \o <<48 + (n % 10)>>

(***************************************************************************)
(* sanitizeEmojiName (main.go:141-156).                                    *)
(***************************************************************************)
\* unidecode.Unidecode on one rune: ASCII is kept, other runes are replaced
\* by the ASCII text of the transliteration table, runes without an entry
\* are dropped.  Table entries used here:
\*   U+00E9 e-acute -> "e"      U+00A9 (c) sign -> "(c)"
\*   U+0436 zhe     -> "zh"     U+0416 ZHE      -> "Zh"
\*   U+0434 de      -> "d"      U+0443 u        -> "u"
\*   U+5317 bei     -> "Bei "   U+1F600 emoji   -> ""
UnidecodeRune(r) ==
    IF r < 127 THEN <<r>>
    ELSE CASE r = 233    -> <<101>>
           [] r = 169    -> <<40, 99, 41>>
           [] r = 1078   -> <<122, 104>>
           [] r = 1046   -> <<90, 104>>
           [] r = 1076   -> <<100>>
           [] r = 1091   -> <<117>>
           [] r = 21271  -> <<66, 101, 105, 32>>
           [] OTHER      -> <<>>

RECURSIVE UnidecodeFrom(_, _)
UnidecodeFrom(name, i) ==
    IF i > Len(name) THEN <<>>
    ELSE UnidecodeRune(name[i]) \o UnidecodeFrom(name, i + 1)

\* main.go:143
Unidecode(name) == UnidecodeFrom(name, 1)

\* main.go:145, strings.ToLower on ASCII text: 'A'..'Z' -> 'a'..'z'
ToLower(name) ==
    [i \in 1..Len(name) |-> IF name[i] >= 65 /\ name[i] <= 90 THEN name[i] + 32 ELSE name[i]]

\* main.go:147, strings.ReplaceAll(name, " ", "-")
ReplaceSpaces(name) ==
    [i \in 1..Len(name) |-> IF name[i] = 32 THEN 45 ELSE name[i]]

\* the character class a-z0-9\-_ of main.go:149
IsAllowed(c) ==
    \/ c >= 97 /\ c <= 122
    \/ c >= 48 /\ c <= 57
    \/ c = 45
    \/ c = 95

\* main.go:149-150, every run of characters outside the class is removed
StripForbidden(name) == SelectSeq(name, IsAllowed)

\* the Mattermost limit of main.go:152-153
MaxNameLen == 64

\* a truncation that is off by one
MutTruncate(name) == IF Len(name) > MaxNameLen THEN SubSeq(name, 1, MaxNameLen + 1) ELSE name

\* a truncation that cuts names of exactly the limit as well
MutTruncateShort(name) == IF Len(name) >= MaxNameLen THEN SubSeq(name, 1, MaxNameLen - 1) ELSE name

\* main.go:152-154
Truncate(name) == IF Len(name) > MaxNameLen THEN SubSeq(name, 1, MaxNameLen) ELSE name

sanitizeEmojiName(name) ==
    Truncate(StripForbidden(ReplaceSpaces(ToLower(Unidecode(name)))))

(***************************************************************************)
(* The sanitizer on its own: inputs from a bounded set, one action that    *)
(* applies it, one that applies it to its own output.                      *)
(***************************************************************************)
\* 'a' 'Z' '7' '_' ' ' '@' U+0436 (zhe) U+5317 (bei) U+1F600 (emoji)
Alphabet == {97, 90, 55, 95, 32, 64, 1078, 21271, 128512}

Blocks == UNION {[1..n -> Alphabet] : n \in 1..MaxBlock}

SanInputs == {Repeat(b, k) : b \in Blocks, k \in 0..MaxRepeat}

RunIdle ==
    /\ pc = "idle"
    /\ serverURL = <<>> /\ token = <<>> /\ jsonFile = <<>>
    /\ disk = "ENOENT"
    /\ emojis = <<>>
    /\ userID = <<>>
    /\ todo = {}
    /\ originalName = <<>> /\ safeName = <<>> /\ contentType = <<>>
    /\ exitCode = -1
    /\ trace = <<>>

SanInit ==
    /\ RunIdle
    /\ sanPc = "in"
    /\ sanIn \in SanInputs
    /\ sanOut = <<>>
    /\ sanAgain = <<>>

Sanitize ==
    /\ sanPc = "in"
    /\ sanOut' = sanitizeEmojiName(sanIn)
    /\ sanPc' = "out"
    /\ UNCHANGED <<sanIn, sanAgain, runVars>>

Resanitize ==
    /\ sanPc = "out"
    /\ sanAgain' = sanitizeEmojiName(sanOut)
    /\ sanPc' = "again"
    /\ UNCHANGED <<sanIn, sanOut, runVars>>

SanNext == Sanitize \/ Resanitize

SanSpec == SanInit /\ [][SanNext]_vars

\* every character of s is in [a-z0-9_-]
InOutputAlphabet(s) == \A i \in 1..Len(s) : IsAllowed(s[i])

\* C9: for every input, sanitize returns a string of length at most 64
\* whose characters are all in [a-z0-9_-] (the function has no error
\* result: Sanitize has no guard on its input).
C9_OutputValid ==
    sanPc \in {"out", "again"} =>
        /\ Len(sanOut) <= MaxNameLen
        /\ InOutputAlphabet(sanOut)

\* an input longer than 64 runes with uppercase, non-ASCII and forbidden
\* characters has been sanitized to a full-length name
C9_Witness ==
    /\ sanPc = "out"
    /\ Len(sanIn) > MaxNameLen
    /\ \E i \in 1..Len(sanIn) : sanIn[i] > 127
    /\ \E i \in 1..Len(sanIn) : sanIn[i] = 64
    /\ Len(sanOut) = MaxNameLen

\* C10: a string already in the output alphabet and of length at most 64
\* is returned unchanged, and sanitizing an output again returns it.
C10_Idempotent ==
    /\ (sanPc \in {"out", "again"} /\ InOutputAlphabet(sanIn) /\ Len(sanIn) <= MaxNameLen)
          => sanOut = sanIn
    /\ sanPc = "again" => sanAgain = sanOut

\* a valid name of exactly 64 characters went through unchanged, and the
\* output of an input that was changed went through again
C10_Witness ==
    \/ /\ sanPc = "out"
       /\ InOutputAlphabet(sanIn)
       /\ Len(sanIn) = MaxNameLen
       /\ sanOut = sanIn
    \/ /\ sanPc = "again"
       /\ sanOut # sanIn
       /\ Len(sanOut) > 0
       /\ sanAgain = sanOut

(***************************************************************************)
(* The run of main() (main.go:57-138).                                     *)
(***************************************************************************)
\* "alias:"
AliasPrefix == <<97, 108, 105, 97, 115, 58>>
\* "alias:squirrel"
AliasSquirrel == <<97, 108, 105, 97, 115, 58, 115, 113, 117, 105, 114, 114, 101, 108>>
\* "http://h/e.png"
ImageURL == <<104, 116, 116, 112, 58, 47, 47, 104, 47, 101, 46, 112, 110, 103>>
\* "image/gif", "image/jpeg", "image/png"
ImageGif == <<105, 109, 97, 103, 101, 47, 103, 105, 102>>
ImageJpeg == <<105, 109, 97, 103, 101, 47, 106, 112, 101, 103>>
ImagePng == <<105, 109, 97, 103, 101, 47, 112, 110, 103>>
\* "EOF", "read tcp :54001", "unexpected EOF"
CauseEOF == <<69, 79, 70>>
CausePort == <<114, 101, 97, 100, 32, 116, 99, 112, 32, 58, 53, 52, 48, 48, 49>>
CauseShortBody == <<117, 110, 101, 120, 112, 101, 99, 116, 101, 100, 32, 69, 79, 70>>
\* response bodies "exists", "oops", "ref 4001", "denied", and a user record
\* that does not decode
BodyExists == <<101, 120, 105, 115, 116, 115>>
BodyOops == <<111, 111, 112, 115>>
BodyRef == <<114, 101, 102, 32, 52, 48, 48, 49>>
BodyDenied == <<100, 101, 110, 105, 101, 100>>
BodyBadJSON == <<98, 97, 100, 32, 106, 115, 111, 110>>

\* values of the three flags: absent ("") or given
ServerValues == {<<>>, <<104, 116, 116, 112, 58, 47, 47, 109, 109>>}
TokenValues == {<<>>, <<116, 111, 107>>}
FileValues == {<<>>, <<101, 46, 106, 115, 111, 110>>}

\* original names "A", "a", "@": two that sanitize to the same name and one
\* that sanitizes to the empty name
Names == {<<65>>, <<97>>, <<64>>}
Sources == {AliasSquirrel, ImageURL}

\* EmojiMap values (main.go:51) of at most MaxEntries entries
Manifests ==
    UNION {[K -> Sources] : K \in {S \in SUBSET Names : Cardinality(S) <= MaxEntries}}

\* what is on disk at jsonFile: unreadable, not a JSON object of strings,
\* or a manifest
Disks ==
    {[readable |-> FALSE, valid |-> FALSE, content |-> <<>>],
     [readable |-> TRUE, valid |-> FALSE, content |-> <<>>]}
    \cup {[readable |-> TRUE, valid |-> TRUE, content |-> m] : m \in Manifests}

\* what the network can answer: a transport error with its cause, or an
\* HTTP response
NetErr(cause) == [kind |-> "neterr", status |-> 0, text |-> cause, good |-> FALSE, val |-> <<>>]
Http(status, body, good, val) ==
    [kind |-> "http", status |-> status, text |-> body, good |-> good, val |-> val]

\* answers of GET /api/v4/users/me: val is the id of the decoded body,
\* good says whether the body decodes
IdentityResponses ==
    {NetErr(CauseEOF),
     Http(401, BodyDenied, TRUE, <<>>),
     Http(200, BodyBadJSON, FALSE, <<>>),
     Http(200, <<>>, TRUE, <<117, 49>>),
     Http(200, <<>>, TRUE, <<117, 50>>)}

\* answers of GET url: val is the Content-Type header, good says whether
\* the body can be read to its end
FetchResponses ==
    {NetErr(CauseEOF),
     Http(404, <<>>, TRUE, <<>>),
     Http(200, CauseShortBody, FALSE, ImagePng),
     Http(200, <<>>, TRUE, ImageGif),
     Http(200, <<>>, TRUE, ImagePng)}

\* answers of POST /api/v4/emoji
UploadResponses ==
    {NetErr(CauseEOF),
     NetErr(CausePort),
     Http(200, <<>>, TRUE, <<>>),
     Http(201, <<>>, TRUE, <<>>),
     Http(400, BodyExists, TRUE, <<>>),
     Http(500, BodyOops, TRUE, <<>>),
     Http(500, BodyRef, TRUE, <<>>)}

\* a Go (value, error) result
Ok(v) == [ok |-> TRUE, err |-> <<>>, val |-> v]
Fail(text) == [ok |-> FALSE, err |-> text, val |-> <<>>]

\* the text of the *url.Error client.Get / client.Do return:  Op "URL": cause
UrlError(op, url, cause) == op \o <<32, 34>> \o url \o <<34, 58, 32>> \o cause

\* fmt.Errorf("status %d: %s", ...)  (main.go:196, main.go:253)
StatusError(status, body) ==
    <<115, 116, 97, 116, 117, 115, 32>> \o Itoa(status) \o <<58, 32>> \o body

\* a download that does not look at the status of the response
MutDownloadImage(url, resp) ==
    IF resp.kind = "neterr" THEN Fail(UrlError(<<71, 101, 116>>, url, resp.text))
    ELSE IF ~resp.good THEN Fail(resp.text)
    ELSE Ok(resp.val)

\* main.go:159-177
downloadImage(url, resp) ==
    IF resp.kind = "neterr" THEN Fail(UrlError(<<71, 101, 116>>, url, resp.text))
    ELSE IF resp.status # 200 THEN Fail(<<72, 84, 84, 80, 32>> \o Itoa(resp.status))
    ELSE IF ~resp.good THEN Fail(resp.text)
    ELSE Ok(resp.val)

\* main.go:180-205
getUserID(server, resp) ==
    IF resp.kind = "neterr"
    THEN Fail(UrlError(<<71, 101, 116>>,
                       server \o <<47, 97, 112, 105, 47, 118, 52, 47, 117, 115, 101, 114, 115, 47, 109, 101>>,
                       resp.text))
    ELSE IF resp.status # 200 THEN Fail(StatusError(resp.status, resp.text))
    ELSE IF ~resp.good THEN Fail(resp.text)
    ELSE Ok(resp.val)

\* main.go:218-223: ".gif", ".jpg", otherwise ".png"
Extension(ctype) ==
    IF ctype = ImageGif THEN <<46, 103, 105, 102>>
    ELSE IF ctype = ImageJpeg THEN <<46, 106, 112, 103>>
    ELSE <<46, 112, 110, 103>>

\* a request whose metadata has name and creator the wrong way round
MutUploadRequest(name, ctype, creatorID) ==
    [name |-> creatorID, creator_id |-> name, filename |-> name \o Extension(ctype)]

\* main.go:209-242: the two parts of the multipart request
UploadRequest(name, ctype, creatorID) ==
    [name |-> name, creator_id |-> creatorID, filename |-> name \o Extension(ctype)]

\* main.go:244-256
uploadToMattermost(server, resp) ==
    IF resp.kind = "neterr"
    THEN Fail(UrlError(<<80, 111, 115, 116>>,
                       server \o <<47, 97, 112, 105, 47, 118, 52, 47, 101, 109, 111, 106, 105>>,
                       resp.text))
    ELSE IF resp.status # 200 /\ resp.status # 201
    THEN Fail(StatusError(resp.status, resp.text))
    ELSE Ok(<<>>)

\* main.go:124-133: the outcome printed for the result of an upload
ClassifyUpload(res) ==
    IF ~res.ok
    THEN IF Contains(res.err, <<52, 48, 48>>)
         THEN "DuplicateSkipped"
         ELSE "UploadFailed"
    ELSE "Uploaded"

Outcome(name, kind, detail) ==
    [ev |-> "outcome", name |-> name, kind |-> kind, detail |-> detail]

RunInit ==
    /\ pc = "flags"
    /\ serverURL \in ServerValues
    /\ token \in TokenValues
    /\ jsonFile \in FileValues
    /\ disk \in Disks
    /\ emojis = <<>>
    /\ userID = <<>>
    /\ todo = {}
    /\ originalName = <<>> /\ safeName = <<>> /\ contentType = <<>>
    /\ exitCode = -1
    /\ trace = <<>>

SanIdle ==
    /\ sanPc = "idle"
    /\ sanIn = <<>> /\ sanOut = <<>> /\ sanAgain = <<>>

Init == RunInit /\ SanIdle

\* main.go:58-75: a missing flag prints the usage and exits with code 1
CheckFlags ==
    /\ pc = "flags"
    /\ IF serverURL = <<>> \/ token = <<>> \/ jsonFile = <<>>
       THEN pc' = "exit" /\ exitCode' = 1
       ELSE pc' = "readfile" /\ UNCHANGED exitCode
    /\ UNCHANGED <<serverURL, token, jsonFile, disk, emojis, userID, todo,
                   originalName, safeName, contentType, trace, sanVars>>

\* main.go:78-82
ReadFile ==
    /\ pc = "readfile"
    /\ IF ~disk.readable
       THEN pc' = "exit" /\ exitCode' = 0
       ELSE pc' = "unmarshal" /\ UNCHANGED exitCode
    /\ UNCHANGED <<serverURL, token, jsonFile, disk, emojis, userID, todo,
                   originalName, safeName, contentType, trace, sanVars>>

\* json.Unmarshal that drops its error and goes on with what it decoded
MutUnmarshal ==
    /\ pc = "unmarshal"
    /\ emojis' = disk.content
    /\ pc' = "getUserID"
    /\ UNCHANGED <<serverURL, token, jsonFile, disk, userID, todo, originalName,
                   safeName, contentType, exitCode, trace, sanVars>>

\* main.go:84-88
Unmarshal ==
    /\ pc = "unmarshal"
    /\ IF ~disk.valid
       THEN pc' = "exit" /\ exitCode' = 0 /\ UNCHANGED emojis
       ELSE pc' = "getUserID" /\ emojis' = disk.content /\ UNCHANGED exitCode
    /\ UNCHANGED <<serverURL, token, jsonFile, disk, userID, todo, originalName,
                   safeName, contentType, trace, sanVars>>

\* main.go:95-101: the identity call, then the loop starts over all keys
GetUserID ==
    /\ pc = "getUserID"
    /\ \E resp \in IdentityResponses :
         LET res == getUserID(serverURL, resp) IN
         /\ trace' = Append(trace, [ev |-> "getUserID", resp |-> resp, res |-> res])
         /\ IF ~res.ok
            THEN pc' = "exit" /\ exitCode' = 0 /\ UNCHANGED <<userID, todo>>
            ELSE /\ pc' = "range"
                 /\ userID' = res.val
                 /\ todo' = DOMAIN emojis
                 /\ UNCHANGED exitCode
    /\ UNCHANGED <<serverURL, token, jsonFile, disk, emojis, originalName,
                   safeName, contentType, sanVars>>

\* strings.HasPrefix with its arguments the other way round
MutIsAlias(url) == HasPrefix(AliasPrefix, url)

\* main.go:110
IsAlias(url) == HasPrefix(url, AliasPrefix)

\* where the loop goes after an alias entry: continue (main.go:112)
AfterAlias == "range"

\* a failed download that ends the run (return in place of continue)
MutReturn == "exit"

\* a failed download that is tried again
MutRetry == "download"

\* where the loop goes after a failed download: continue (main.go:119)
AfterDownloadError == "range"

\* an upload after which the loop goes on at once
MutNoPause == "range"

\* where the loop goes after an upload, whatever its result: time.Sleep
\* (main.go:136)
AfterUpload == "sleep"

\* main.go:103: every key has been visited, main returns
RangeDone ==
    /\ pc = "range"
    /\ todo = {}
    /\ pc' = "exit"
    /\ exitCode' = 0
    /\ UNCHANGED <<serverURL, token, jsonFile, disk, emojis, userID, todo,
                   originalName, safeName, contentType, trace, sanVars>>

\* main.go:103-113: the next key in the map's (unspecified) order, its
\* sanitized name, the "Processing" line, and the alias test
RangeNext ==
    /\ pc = "range"
    /\ \E name \in todo :
         LET begin == Append(trace, [ev |-> "begin", name |-> name]) IN
         /\ originalName' = name
         /\ safeName' = sanitizeEmojiName(name)
         /\ todo' = todo \ {name}
         /\ IF IsAlias(emojis[name])
            THEN /\ trace' = Append(begin, Outcome(name, "AliasSkipped", <<>>))
                 /\ pc' = AfterAlias
            ELSE /\ trace' = begin
                 /\ pc' = "download"
    /\ UNCHANGED <<serverURL, token, jsonFile, disk, emojis, userID,
                   contentType, exitCode, sanVars>>

\* main.go:116-120
Download ==
    /\ pc = "download"
    /\ \E resp \in FetchResponses :
         LET url == emojis[originalName]
             res == downloadImage(url, resp)
             call == Append(trace, [ev |-> "fetch", name |-> originalName,
                                    url |-> url, resp |-> resp])
         IN
         IF ~res.ok
         THEN /\ trace' = Append(call, Outcome(originalName, "FetchFailed", res.err))
              /\ pc' = AfterDownloadError
              /\ IF pc' = "exit" THEN exitCode' = 0 ELSE UNCHANGED exitCode
              /\ UNCHANGED contentType
         ELSE /\ trace' = call
              /\ contentType' = res.val
              /\ pc' = "upload"
              /\ UNCHANGED exitCode
    /\ UNCHANGED <<serverURL, token, jsonFile, disk, emojis, userID, todo,
                   originalName, safeName, sanVars>>

\* main.go:123-133
Upload ==
    /\ pc = "upload"
    /\ \E resp \in UploadResponses :
         LET res == uploadToMattermost(serverURL, resp)
             call == Append(trace, [ev |-> "upload", name |-> originalName,
                                    req |-> UploadRequest(safeName, contentType, userID),
                                    resp |-> resp])
         IN
         /\ trace' = Append(call, Outcome(originalName, ClassifyUpload(res), res.err))
         /\ pc' = AfterUpload
    /\ UNCHANGED <<serverURL, token, jsonFile, disk, emojis, userID, todo,
                   originalName, safeName, contentType, exitCode, sanVars>>

\* main.go:136
Sleep ==
    /\ pc = "sleep"
    /\ trace' = Append(trace, [ev |-> "sleep"])
    /\ pc' = "range"
    /\ UNCHANGED <<serverURL, token, jsonFile, disk, emojis, userID, todo,
                   originalName, safeName, contentType, exitCode, sanVars>>

Next ==
    \/ CheckFlags
    \/ ReadFile
    \/ Unmarshal
    \/ GetUserID
    \/ RangeDone
    \/ RangeNext
    \/ Download
    \/ Upload
    \/ Sleep

Spec == Init /\ [][Next]_vars

\* every network call and the sleep return within a bounded time (the
\* client's 30 s timeout, main.go:90-92), so main always takes its next step
LiveSpec == Spec /\ WF_vars(Next)

(***************************************************************************)
(* Reading the history.                                                    *)
(***************************************************************************)
Events(e) == {i \in 1..Len(trace) : trace[i].ev = e}
EventsOf(e, n) == {i \in Events(e) : trace[i].name = n}
NetworkCalls == Events("getUserID") \cup Events("fetch") \cup Events("upload")

\* the answer of a fetch is a success: status 200 and a body read to its end
FetchSucceeded(resp) == resp.kind = "http" /\ resp.status = 200 /\ resp.good
\* the answer of the identity call is a success
IdentitySucceeded(resp) == resp.kind = "http" /\ resp.status = 200 /\ resp.good
\* the answer of an upload is HTTP 200 or 201
UploadSucceeded(resp) == resp.kind = "http" /\ resp.status \in {200, 201}

UploadKinds == {"Uploaded", "DuplicateSkipped", "UploadFailed"}
NonAlias == {n \in DOMAIN emojis : ~HasPrefix(emojis[n], AliasPrefix)}

\* C1: an upload that ends in anything but HTTP 200 or 201 is reported as
\* DuplicateSkipped exactly when the response status is 400, and as
\* UploadFailed in every other case, whatever the body or the error text.
C1_DuplicateIffStatus400 ==
    \A i \in Events("upload") :
        ~UploadSucceeded(trace[i].resp) =>
            /\ trace[i + 1].ev = "outcome"
            /\ trace[i + 1].kind =
                  IF trace[i].resp.kind = "http" /\ trace[i].resp.status = 400
                  THEN "DuplicateSkipped"
                  ELSE "UploadFailed"

\* C2 as claimed: between the starts of any two entries there is a pause.
C2_PauseAfterEveryEntry ==
    \A i \in Events("begin") : \A j \in Events("begin") :
        i < j => \E k \in Events("sleep") : i < k /\ k < j

\* C2 as amended: the pause follows every entry whose upload was attempted
\* (Uploaded, DuplicateSkipped, UploadFailed) before the next entry starts
\* or the run ends; after AliasSkipped and FetchFailed the loop goes on
\* without a pause; so no two upload calls are made without a pause
\* between them.
C2_PauseAfterEveryUpload ==
    /\ \A i \in Events("outcome") :
         IF trace[i].kind \in UploadKinds
         THEN IF i = Len(trace) THEN pc = "sleep" ELSE trace[i + 1].ev = "sleep"
         ELSE IF i = Len(trace) THEN pc # "sleep" ELSE trace[i + 1].ev # "sleep"
    /\ \A i \in Events("upload") : \A j \in Events("upload") :
         i < j => \E k \in Events("sleep") : i < k /\ k < j
    /\ \A k \in Events("sleep") :
         k > 1 /\ trace[k - 1].ev = "outcome" /\ trace[k - 1].kind \in UploadKinds

\* an upload was attempted, the pause was taken, and the next entry started
C2_Witness ==
    \E k \in Events("sleep") :
        /\ trace[k - 1].ev = "outcome"
        /\ trace[k - 1].kind = "DuplicateSkipped"
        /\ k < Len(trace)
        /\ trace[k + 1].ev = "begin"

\* C3: for an entry whose source starts with "alias:" no fetch and no
\* upload call is ever made, and once it is processed its one outcome is
\* AliasSkipped, whatever its sanitized name.
C3_AliasNeverFetched ==
    \A n \in DOMAIN emojis :
        HasPrefix(emojis[n], AliasPrefix) =>
            /\ EventsOf("fetch", n) = {}
            /\ EventsOf("upload", n) = {}
            /\ \A i \in EventsOf("begin", n) :
                 /\ i < Len(trace)
                 /\ trace[i + 1] = Outcome(n, "AliasSkipped", <<>>)
            /\ \A i \in EventsOf("outcome", n) : trace[i].kind = "AliasSkipped"

\* the alias entry "@" (empty sanitized name) was processed and skipped,
\* and the run went on to fetch another entry
C3_Witness ==
    /\ <<64>> \in DOMAIN emojis
    /\ emojis[<<64>>] = AliasSquirrel
    /\ sanitizeEmojiName(<<64>>) = <<>>
    /\ EventsOf("outcome", <<64>>) # {}
    /\ Events("fetch") # {}

\* C4: a fetch answered with a status other than success, or failing at
\* network level, gives FetchFailed with the status code (or the cause) in
\* its detail; no upload is made for the entry; the loop goes to the next
\* entry.
C4_FetchFailure ==
    \A i \in Events("fetch") :
        ~FetchSucceeded(trace[i].resp) =>
            /\ i < Len(trace)
            /\ trace[i + 1].ev = "outcome"
            /\ trace[i + 1].name = trace[i].name
            /\ trace[i + 1].kind = "FetchFailed"
            /\ IF trace[i].resp.kind = "http" /\ trace[i].resp.status # 200
               THEN Contains(trace[i + 1].detail, Itoa(trace[i].resp.status))
               ELSE Contains(trace[i + 1].detail, trace[i].resp.text)
            /\ EventsOf("upload", trace[i].name) = {}
            /\ (i + 1 = Len(trace) /\ todo # {}) => pc = "range"

\* a fetch was answered 404, reported with "HTTP 404", and the next entry
\* was started
C4_Witness ==
    \E i \in Events("fetch") :
        /\ trace[i].resp.status = 404
        /\ trace[i + 1].detail = <<72, 84, 84, 80, 32, 52, 48, 52>>
        /\ i + 2 <= Len(trace)
        /\ trace[i + 2].ev = "begin"

\* every entry of the manifest has been started once and has one outcome
AllProcessedOnce ==
    /\ \A n \in DOMAIN emojis :
         /\ Cardinality(EventsOf("begin", n)) = 1
         /\ Cardinality(EventsOf("outcome", n)) = 1
    /\ Cardinality(Events("outcome")) = Cardinality(DOMAIN emojis)

\* C5: once the identity call has succeeded the run ends, whatever the
\* fetches and uploads answer, with every entry processed exactly once and
\* exactly one outcome for each; no entry is ever processed twice.
C5_EveryEntryOnce ==
    /\ [](\A n \in DOMAIN emojis :
            /\ Cardinality(EventsOf("begin", n)) <= 1
            /\ Cardinality(EventsOf("outcome", n)) <= 1)
    /\ (pc = "range") ~> (pc = "exit" /\ AllProcessedOnce)

\* a run of two entries ended after a failed fetch and a failed upload
C5_Witness ==
    /\ pc = "exit"
    /\ Cardinality(DOMAIN emojis) = 2
    /\ \E i \in Events("outcome") : trace[i].kind = "FetchFailed"
    /\ \E i \in Events("outcome") : trace[i].kind = "UploadFailed"
    /\ AllProcessedOnce

\* C6: the identity call is made at most once, and exactly once in a run
\* that reaches the loop; it comes before every fetch and upload; no fetch
\* or upload is made unless it succeeded, its failure ends the run with no
\* entry started; every upload carries the id it returned.
C6_IdentityOnceFirst ==
    /\ Cardinality(Events("getUserID")) <= 1
    /\ pc \in {"range", "download", "upload", "sleep"} =>
          Cardinality(Events("getUserID")) = 1
    /\ \A i \in Events("fetch") \cup Events("upload") :
          \E j \in Events("getUserID") :
              /\ j < i
              /\ IdentitySucceeded(trace[j].resp)
    /\ \A i \in Events("upload") : \A j \in Events("getUserID") :
          trace[i].req.creator_id = trace[j].resp.val
    /\ \A j \in Events("getUserID") :
          ~IdentitySucceeded(trace[j].resp) =>
              /\ pc = "exit"
              /\ Len(trace) = 1

\* two uploads were made, both for the principal "u2" of the one identity
\* call
C6_Witness ==
    /\ Cardinality(Events("upload")) = 2
    /\ Cardinality(Events("getUserID")) = 1
    /\ \A i \in Events("upload") : trace[i].req.creator_id = <<117, 50>>

\* C7: a run with a flag missing, an unreadable file or a manifest that is
\* not valid JSON makes no network call at all.
C7_NoCallOnBadConfig ==
    (\/ serverURL = <<>>
     \/ token = <<>>
     \/ jsonFile = <<>>
     \/ ~disk.readable
     \/ ~disk.valid)
        => /\ NetworkCalls = {}
           /\ pc \in {"flags", "readfile", "unmarshal", "exit"}

\* a run with all flags given and a readable file that is not valid JSON
\* has ended
C7_Witness ==
    /\ pc = "exit"
    /\ serverURL # <<>> /\ token # <<>> /\ jsonFile # <<>>
    /\ disk.readable
    /\ ~disk.valid

\* C8: no entry is fetched or uploaded twice, and a completed run over N
\* non-alias entries has made exactly N fetches, one per non-alias entry,
\* and exactly one upload for each entry whose fetch succeeded and none for
\* the others (so at most N), also when sanitized names are empty or equal.
C8_CallCounts ==
    /\ \A n \in DOMAIN emojis :
         /\ Cardinality(EventsOf("fetch", n)) <= 1
         /\ Cardinality(EventsOf("upload", n)) <= 1
    /\ (pc = "exit" /\ Events("getUserID") # {} /\ userID # <<>>) =>
         /\ Cardinality(Events("fetch")) = Cardinality(NonAlias)
         /\ Cardinality(Events("upload")) <= Cardinality(NonAlias)
         /\ \A n \in NonAlias : Cardinality(EventsOf("fetch", n)) = 1
         /\ \A n \in DOMAIN emojis :
              Cardinality(EventsOf("upload", n)) =
                 IF \E i \in EventsOf("fetch", n) : FetchSucceeded(trace[i].resp)
                 THEN 1 ELSE 0

\* a completed run uploaded two entries under the same sanitized name
C8_Witness ==
    /\ pc = "exit"
    /\ Cardinality(NonAlias) = 2
    /\ \E i \in Events("upload") : \E j \in Events("upload") :
          /\ i < j
          /\ trace[i].req.name = trace[j].req.name
====
